---- MODULE Spec2Model ----
(***************************************************************************)
(* Model of automation_tools/satellite6/upgrade/__init__.py:               *)
(* product_upgrade and the two role workflows it dispatches,               *)
(* satellite6_upgrade (hub) and satellite6_capsule_upgrade (subordinate).  *)
(*                                                                         *)
(* The program is sequential.  Every call that leaves the module (a fabric *)
(* run/put/execute, a helper of tasks, tools or automation_tools) is one   *)
(* step whose outcome, success or failure, is chosen nondeterministically. *)
(* A failure of a call that was not issued with warn_only=True raises and, *)
(* as the module has no try/except, ends the run.                          *)
(*                                                                         *)
(* os.environ is never written by the module.  A key's value is fixed the  *)
(* first time the code consults it (Unread before that) and every later    *)
(* os.environ.get of the same key returns the same value.                  *)
(***************************************************************************)
EXTENDS Naturals, Sequences, FiniteSets

VARIABLES
    product,     \* argument of product_upgrade
    sat_image,   \* argument of product_upgrade
    cap_image,   \* argument of product_upgrade
    environ,     \* os.environ, as far as the run has consulted it
    env,         \* fabric.api.env: satellite_host, capsule_host
    version,     \* local of product_upgrade (bound only in one branch)
    sat_host,    \* local of product_upgrade
    cap_host,    \* local of product_upgrade
    pc,          \* the statement the run is about to execute
    status,      \* "running", "done", or why the run ended
    log,         \* every call issued so far, in order
    lastFail,    \* pc of the most recent call that failed
    satRepos,    \* repositories enabled on the hub host
    capRepos     \* capsule repositories enabled on the subordinate host

vars == <<product, sat_image, cap_image, environ, env, version, sat_host,
          cap_host, pc, status, log, lastFail, satRepos, capRepos>>

-----------------------------------------------------------------------------
(* Values *)

None == "None"          \* Python's None
Unread == "Unread"      \* an os.environ key the run has not consulted yet
Unbound == "Unbound"    \* a local name that was never assigned

Truthy(x) == x # None /\ x # ""

Products == {"satellite", "capsule", "other"}
VersionStrings == {"6.0", "6.1", "6.2"}

EnvKeys == {"SATELLITE_HOSTNAME", "RHEV_SATELLITE", "OS", "CAPSULE_HOSTNAME",
            "RHEV_CAPSULE", "CAPSULE_URL", "BASE_URL", "FROM_VERSION",
            "TO_VERSION"}

EnvValues(k) ==
    CASE k = "SATELLITE_HOSTNAME" -> {None, "sat.example.com"}
      [] k = "RHEV_SATELLITE"     -> {None, "sat.rhev.example.com"}
      [] k = "OS"                 -> {None, "rhel7"}
      [] k = "CAPSULE_HOSTNAME"   -> {None, "cap.example.com"}
      [] k = "RHEV_CAPSULE"       -> {None, "cap.rhev.example.com"}
      [] k = "CAPSULE_URL"        -> {None, "http://compose/capsule"}
      [] k = "BASE_URL"           -> {None, "http://compose/satellite"}
      [] k = "FROM_VERSION"       -> {None} \cup VersionStrings
      [] k = "TO_VERSION"         -> {None} \cup VersionStrings

\* os.environ.get(k) may return v: the value already seen, or any value if
\* the key was not consulted before.
Reads(k, v) ==
    \/ environ[k] = v
    \/ environ[k] = Unread /\ v \in EnvValues(k)

-----------------------------------------------------------------------------
(* Calls *)

\* One entry of the log: the statement, the callable or command, the host
\* it is executed on (Local for calls that run where the script runs) and
\* its arguments.
Local == "local"
Entry(at, op, host, args) == [at |-> at, op |-> op, host |-> host, args |-> args]

\* sys.exit(1) after a printed message, or an exception leaving the module.
Exit(why) ==
    /\ pc' = "exit"
    /\ status' = why
    /\ UNCHANGED <<log, lastFail>>

\* A statement that issues no call.
Goto(next) ==
    /\ pc' = next
    /\ UNCHANGED <<status, log, lastFail>>

\* A call issued at pc: entry is logged; when it succeeds, or fails with
\* warn_only=True, the run goes on at next ("end": the run is over);
\* otherwise the failure ends the run.
Call(entry, next, warn_only, ok) ==
    /\ log' = Append(log, entry)
    /\ lastFail' = IF ok THEN lastFail ELSE entry.at
    /\ IF ok \/ warn_only
         THEN /\ pc' = next
              /\ status' = IF next = "end" THEN "done" ELSE status
         ELSE /\ pc' = "exit"
              /\ status' = "remote_error"

-----------------------------------------------------------------------------
(* Helpers of tools whose code is not part of this module *)

\* tools.host_pings(host): blocks until the host answers; running out of
\* the time budget is a failure raised to the caller.
host_pings(at, host, next, ok) ==
    Call(Entry(at, "host_pings", Local, <<host>>), next, FALSE, ok)

\* tools.reboot(120): reboots the current host and waits for it to be
\* reachable again; a host that does not come back within the budget is
\* a failure raised to the caller.
reboot(at, host, next, ok) ==
    Call(Entry(at, "reboot", host, <<"120">>), next, FALSE, ok)

\* tasks.create_rhevm_instance(instance_name, template_name): creates the
\* instance; it returns nothing and records no host in fabric's env.
create_rhevm_instance(at, instance, image, next, ok) ==
    /\ Call(Entry(at, "create_rhevm_instance", Local, instance \o <<image>>),
            next, FALSE, ok)
    /\ env' = env

-----------------------------------------------------------------------------
(* product_upgrade *)

SatInstance(v) == <<"upgrade_satellite_auto_{0}", v>>
CapInstance(v) == <<"upgrade_capsule_auto_{0}", v>>

\* CheckProduct, without the check of lines 261-263.
CheckProductMissing ==
    /\ pc = "pu_start"
    /\ Goto("pu_resolve_sat")
    /\ UNCHANGED <<product, sat_image, cap_image, environ, env, version,
                   sat_host, cap_host, satRepos, capRepos>>

\* lines 260-263
CheckProduct ==
    /\ pc = "pu_start"
    /\ IF product \notin {"satellite", "capsule"}
         THEN Exit("bad_product")
         ELSE Goto("pu_resolve_sat")
    /\ UNCHANGED <<product, sat_image, cap_image, environ, env, version,
                   sat_host, cap_host, satRepos, capRepos>>

\* lines 264-273 and 287-289
ResolveSatellite ==
    /\ pc = "pu_resolve_sat"
    /\ \E h \in EnvValues("SATELLITE_HOSTNAME") :
         /\ Reads("SATELLITE_HOSTNAME", h)
         /\ IF Truthy(h)
              THEN /\ environ' = [environ EXCEPT !["SATELLITE_HOSTNAME"] = h]
                   /\ sat_host' = h
                   /\ env' = [env EXCEPT !.satellite_host = h]
                   /\ version' = version
                   /\ Goto("pu_restart")
              ELSE \E r \in EnvValues("RHEV_SATELLITE") :
                     /\ Reads("RHEV_SATELLITE", r)
                     /\ IF ~Truthy(sat_image) /\ ~Truthy(r)
                          THEN /\ environ' = [environ EXCEPT
                                     !["SATELLITE_HOSTNAME"] = h,
                                     !["RHEV_SATELLITE"] = r]
                               /\ version' = version
                               /\ Exit("missing_satellite_host")
                          ELSE \E o \in EnvValues("OS") :
                                 /\ Reads("OS", o)
                                 /\ environ' = [environ EXCEPT
                                       !["SATELLITE_HOSTNAME"] = h,
                                       !["RHEV_SATELLITE"] = r,
                                       !["OS"] = o]
                                 /\ version' = o
                                 /\ IF ~Truthy(o)
                                      THEN Exit("missing_os")
                                      ELSE Goto("pu_delete_sat")
                     /\ UNCHANGED <<sat_host, env>>
    /\ UNCHANGED <<product, sat_image, cap_image, cap_host, satRepos, capRepos>>

\* line 275
DeleteSatInstance ==
    /\ pc = "pu_delete_sat"
    /\ \E ok \in BOOLEAN :
         Call(Entry(pc, "delete_rhevm_instance", Local, SatInstance(version)),
              "pu_create_sat", FALSE, ok)
    /\ UNCHANGED <<product, sat_image, cap_image, environ, env, version,
                   sat_host, cap_host, satRepos, capRepos>>

\* lines 277-282
CreateSatInstance ==
    /\ pc = "pu_create_sat"
    /\ \E ok \in BOOLEAN :
         /\ create_rhevm_instance(pc, SatInstance(version), sat_image,
                                  "pu_host_pings", ok)
         /\ sat_host' = IF ok THEN environ["RHEV_SATELLITE"] ELSE sat_host
    /\ UNCHANGED <<product, sat_image, cap_image, environ, version,
                   cap_host, satRepos, capRepos>>

\* HostPings, were a wait that ran out of time reported and passed over.
HostPingsIgnored ==
    /\ pc = "pu_host_pings"
    /\ \E ok \in BOOLEAN :
         Call(Entry(pc, "host_pings", Local, <<sat_host>>),
              "pu_subscribe", TRUE, ok)
    /\ UNCHANGED <<product, sat_image, cap_image, environ, env, version,
                   sat_host, cap_host, satRepos, capRepos>>

\* line 284
HostPings ==
    /\ pc = "pu_host_pings"
    /\ \E ok \in BOOLEAN :
         host_pings(pc, sat_host, "pu_subscribe", ok)
    /\ UNCHANGED <<product, sat_image, cap_image, environ, env, version,
                   sat_host, cap_host, satRepos, capRepos>>

\* line 286
Subscribe ==
    /\ pc = "pu_subscribe"
    /\ \E ok \in BOOLEAN :
         Call(Entry(pc, "subscribe", sat_host, <<>>), "pu_restart", FALSE, ok)
    /\ UNCHANGED <<product, sat_image, cap_image, environ, env, version,
                   sat_host, cap_host, satRepos, capRepos>>

\* line 291
RestartServices ==
    /\ pc = "pu_restart"
    /\ \E ok \in BOOLEAN :
         Call(Entry(pc, "katello-service restart", sat_host, <<>>),
              "pu_resolve_cap", FALSE, ok)
    /\ UNCHANGED <<product, sat_image, cap_image, environ, env, version,
                   sat_host, cap_host, satRepos, capRepos>>

\* ResolveCapsule, without the check of lines 295-298.
ResolveCapsuleUnchecked ==
    /\ pc = "pu_resolve_cap"
    /\ IF product # "capsule"
         THEN /\ Goto("su_start")
              /\ UNCHANGED <<environ, cap_host, env>>
         ELSE \E h \in EnvValues("CAPSULE_HOSTNAME") :
                /\ Reads("CAPSULE_HOSTNAME", h)
                /\ IF Truthy(h)
                     THEN /\ environ' = [environ EXCEPT !["CAPSULE_HOSTNAME"] = h]
                          /\ cap_host' = h
                          /\ env' = [env EXCEPT !.capsule_host = h]
                          /\ Goto("pu_copy_ssh_key")
                     ELSE \E r \in EnvValues("RHEV_CAPSULE") :
                            /\ Reads("RHEV_CAPSULE", r)
                            /\ environ' = [environ EXCEPT
                                  !["CAPSULE_HOSTNAME"] = h,
                                  !["RHEV_CAPSULE"] = r]
                            /\ IF version = Unbound
                                 THEN Exit("unbound_local_version")
                                 ELSE Goto("pu_delete_cap")
                            /\ UNCHANGED <<cap_host, env>>
    /\ UNCHANGED <<product, sat_image, cap_image, version, sat_host,
                   satRepos, capRepos>>

\* lines 293-299 and 308-310
ResolveCapsule ==
    /\ pc = "pu_resolve_cap"
    /\ IF product # "capsule"
         THEN /\ Goto("su_start")
              /\ UNCHANGED <<environ, cap_host, env>>
         ELSE \E h \in EnvValues("CAPSULE_HOSTNAME") :
                /\ Reads("CAPSULE_HOSTNAME", h)
                /\ IF Truthy(h)
                     THEN /\ environ' = [environ EXCEPT !["CAPSULE_HOSTNAME"] = h]
                          /\ cap_host' = h
                          /\ env' = [env EXCEPT !.capsule_host = h]
                          /\ Goto("pu_copy_ssh_key")
                     ELSE \E r \in EnvValues("RHEV_CAPSULE") :
                            /\ Reads("RHEV_CAPSULE", r)
                            /\ environ' = [environ EXCEPT
                                  !["CAPSULE_HOSTNAME"] = h,
                                  !["RHEV_CAPSULE"] = r]
                            /\ IF ~Truthy(cap_image) /\ ~Truthy(r)
                                 THEN Exit("missing_capsule_host")
                                 ELSE IF version = Unbound
                                        THEN Exit("unbound_local_version")
                                        ELSE Goto("pu_delete_cap")
                            /\ UNCHANGED <<cap_host, env>>
    /\ UNCHANGED <<product, sat_image, cap_image, version, sat_host,
                   satRepos, capRepos>>

\* line 301
DeleteCapInstance ==
    /\ pc = "pu_delete_cap"
    /\ \E ok \in BOOLEAN :
         Call(Entry(pc, "delete_rhevm_instance", Local, CapInstance(version)),
              "pu_create_cap", FALSE, ok)
    /\ UNCHANGED <<product, sat_image, cap_image, environ, env, version,
                   sat_host, cap_host, satRepos, capRepos>>

\* lines 303-307
CreateCapInstance ==
    /\ pc = "pu_create_cap"
    /\ \E ok \in BOOLEAN :
         /\ create_rhevm_instance(pc, CapInstance(version), cap_image,
                                  "pu_copy_ssh_key", ok)
         /\ cap_host' = IF ok THEN environ["RHEV_CAPSULE"] ELSE cap_host
    /\ UNCHANGED <<product, sat_image, cap_image, environ, version,
                   sat_host, satRepos, capRepos>>

\* line 312
CopySshKey ==
    /\ pc = "pu_copy_ssh_key"
    /\ \E ok \in BOOLEAN :
         Call(Entry(pc, "copy_ssh_key", sat_host, <<cap_host>>),
              "pu_sync_capsule_repos", FALSE, ok)
    /\ UNCHANGED <<product, sat_image, cap_image, environ, env, version,
                   sat_host, cap_host, satRepos, capRepos>>

\* lines 313-314
SyncCapsuleRepos ==
    /\ pc = "pu_sync_capsule_repos"
    /\ \E u \in EnvValues("CAPSULE_URL") :
         /\ Reads("CAPSULE_URL", u)
         /\ environ' = [environ EXCEPT !["CAPSULE_URL"] = u]
         /\ IF u # None
              THEN \E ok \in BOOLEAN :
                     Call(Entry(pc, "sync_capsule_tools_repos_to_upgrade",
                                sat_host, <<>>),
                          "su_start", FALSE, ok)
              ELSE Goto("su_start")
    /\ UNCHANGED <<product, sat_image, cap_image, env, version, sat_host,
                   cap_host, satRepos, capRepos>>

-----------------------------------------------------------------------------
(* Repository names; {0} is distro_info()[1] *)

RhelRepo == <<"rhel-{0}-server-rpms">>
RhsclRepo == <<"rhel-server-rhscl-{0}-rpms">>
SatelliteRepo(v) == <<"rhel-{0}-server-satellite-{1}-rpms", v>>
CapsuleRepo(v) == <<"rhel-{0}-server-satellite-capsule-{1}-rpms", v>>

\* "the old satellite repo and extra repos enabled during subscribe
\* e.g Load balancer" (comment of lines 66-67)
OldSatRepos == {<<"old satellite repo">>, <<"load balancer repo">>}

-----------------------------------------------------------------------------
(* satellite6_upgrade, executed with host=sat_host (line 316) *)

\* CheckToVersion, had line 47 accepted every known version string.
CheckToVersionLoose ==
    /\ pc = "su_start"
    /\ \E t \in EnvValues("TO_VERSION") :
         /\ Reads("TO_VERSION", t)
         /\ environ' = [environ EXCEPT !["TO_VERSION"] = t]
         /\ IF t \notin {"6.0", "6.1", "6.2"}
              THEN Exit("bad_to_version")
              ELSE Goto("su_yum_debug_level")
    /\ UNCHANGED <<product, sat_image, cap_image, env, version, sat_host,
                   cap_host, satRepos, capRepos>>

\* lines 46-50
CheckToVersion ==
    /\ pc = "su_start"
    /\ \E t \in EnvValues("TO_VERSION") :
         /\ Reads("TO_VERSION", t)
         /\ environ' = [environ EXCEPT !["TO_VERSION"] = t]
         /\ IF t \notin {"6.1", "6.2"}
              THEN Exit("bad_to_version")
              ELSE Goto("su_yum_debug_level")
    /\ UNCHANGED <<product, sat_image, cap_image, env, version, sat_host,
                   cap_host, satRepos, capRepos>>

\* line 55
SetYumDebugLevel ==
    /\ pc = "su_yum_debug_level"
    /\ \E ok \in BOOLEAN :
         Call(Entry(pc, "set_yum_debug_level", sat_host, <<>>),
              "su_rm_repo_files", FALSE, ok)
    /\ UNCHANGED <<product, sat_image, cap_image, environ, env, version,
                   sat_host, cap_host, satRepos, capRepos>>

\* line 57
RemoveRhelRepoFiles ==
    /\ pc = "su_rm_repo_files"
    /\ \E ok \in BOOLEAN :
         Call(Entry(pc, "rm -rf /etc/yum.repos.d/rhel-{optional,released}.repo",
                    sat_host, <<>>),
              "su_update_quiet", FALSE, ok)
    /\ UNCHANGED <<product, sat_image, cap_image, environ, env, version,
                   sat_host, cap_host, satRepos, capRepos>>

\* line 59
UpdatePackagesQuiet ==
    /\ pc = "su_update_quiet"
    /\ \E ok \in BOOLEAN :
         Call(Entry(pc, "update_packages", sat_host, <<"quiet=True">>),
              "su_reboot_1", FALSE, ok)
    /\ UNCHANGED <<product, sat_image, cap_image, environ, env, version,
                   sat_host, cap_host, satRepos, capRepos>>

\* lines 61-62
RebootBeforeRepos ==
    /\ pc = "su_reboot_1"
    /\ \E r \in EnvValues("RHEV_SATELLITE") :
         /\ Reads("RHEV_SATELLITE", r)
         /\ environ' = [environ EXCEPT !["RHEV_SATELLITE"] = r]
         /\ IF Truthy(r)
              THEN \E ok \in BOOLEAN : reboot(pc, sat_host, "su_distro_info", ok)
              ELSE Goto("su_distro_info")
    /\ UNCHANGED <<product, sat_image, cap_image, env, version, sat_host,
                   cap_host, satRepos, capRepos>>

\* line 64
DistroInfo ==
    /\ pc = "su_distro_info"
    /\ \E ok \in BOOLEAN :
         Call(Entry(pc, "distro_info", sat_host, <<>>),
              "su_disable_repos", FALSE, ok)
    /\ UNCHANGED <<product, sat_image, cap_image, environ, env, version,
                   sat_host, cap_host, satRepos, capRepos>>

\* DisableAllRepos, had line 68 named the old satellite repository only.
DisableOldSatelliteRepoOnly ==
    /\ pc = "su_disable_repos"
    /\ \E ok \in BOOLEAN :
         /\ Call(Entry(pc, "disable_repos", sat_host, <<"old satellite repo">>),
                 "su_enable_rhel", FALSE, ok)
         /\ satRepos' = IF ok THEN satRepos \ {<<"old satellite repo">>}
                              ELSE satRepos
    /\ UNCHANGED <<product, sat_image, cap_image, environ, env, version,
                   sat_host, cap_host, capRepos>>

\* line 68
DisableAllRepos ==
    /\ pc = "su_disable_repos"
    /\ \E ok \in BOOLEAN :
         /\ Call(Entry(pc, "disable_repos", sat_host, <<"*">>),
                 "su_enable_rhel", FALSE, ok)
         /\ satRepos' = IF ok THEN {} ELSE satRepos
    /\ UNCHANGED <<product, sat_image, cap_image, environ, env, version,
                   sat_host, cap_host, capRepos>>

\* line 69
EnableRhelRepo ==
    /\ pc = "su_enable_rhel"
    /\ \E ok \in BOOLEAN :
         /\ Call(Entry(pc, "enable_repos", sat_host, RhelRepo),
                 "su_enable_rhscl", FALSE, ok)
         /\ satRepos' = IF ok THEN satRepos \cup {RhelRepo} ELSE satRepos
    /\ UNCHANGED <<product, sat_image, cap_image, environ, env, version,
                   sat_host, cap_host, capRepos>>

\* line 70
EnableRhsclRepo ==
    /\ pc = "su_enable_rhscl"
    /\ \E ok \in BOOLEAN :
         /\ Call(Entry(pc, "enable_repos", sat_host, RhsclRepo),
                 "su_satellite_repo", FALSE, ok)
         /\ satRepos' = IF ok THEN satRepos \cup {RhsclRepo} ELSE satRepos
    /\ UNCHANGED <<product, sat_image, cap_image, environ, env, version,
                   sat_host, cap_host, capRepos>>

\* SetSatelliteRepo, had line 71 tested "is not None".
SetSatelliteRepoInverted ==
    /\ pc = "su_satellite_repo"
    /\ \E u \in EnvValues("BASE_URL"), ok \in BOOLEAN :
         /\ Reads("BASE_URL", u)
         /\ environ' = [environ EXCEPT !["BASE_URL"] = u]
         /\ IF u # None
              THEN /\ Call(Entry(pc, "enable_repos", sat_host,
                                 SatelliteRepo(environ["TO_VERSION"])),
                           "su_stop_1", FALSE, ok)
                   /\ satRepos' = IF ok
                        THEN satRepos \cup {SatelliteRepo(environ["TO_VERSION"])}
                        ELSE satRepos
              ELSE /\ Call(Entry(pc, "put", sat_host,
                                 <<"/etc/yum.repos.d/sat6.repo", u>>),
                           "su_stop_1", FALSE, ok)
                   /\ satRepos' = satRepos
    /\ UNCHANGED <<product, sat_image, cap_image, env, version, sat_host,
                   cap_host, capRepos>>

\* lines 65 and 71-84
SetSatelliteRepo ==
    /\ pc = "su_satellite_repo"
    /\ \E u \in EnvValues("BASE_URL"), ok \in BOOLEAN :
         /\ Reads("BASE_URL", u)
         /\ environ' = [environ EXCEPT !["BASE_URL"] = u]
         /\ IF u = None
              THEN /\ Call(Entry(pc, "enable_repos", sat_host,
                                 SatelliteRepo(environ["TO_VERSION"])),
                           "su_stop_1", FALSE, ok)
                   /\ satRepos' = IF ok
                        THEN satRepos \cup {SatelliteRepo(environ["TO_VERSION"])}
                        ELSE satRepos
              ELSE /\ Call(Entry(pc, "put", sat_host,
                                 <<"/etc/yum.repos.d/sat6.repo", u>>),
                           "su_stop_1", FALSE, ok)
                   /\ satRepos' = satRepos
    /\ UNCHANGED <<product, sat_image, cap_image, env, version, sat_host,
                   cap_host, capRepos>>

\* StopServices, had line 86 been issued with warn_only=True.
StopServicesWarnOnly ==
    /\ pc = "su_stop_1"
    /\ \E ok \in BOOLEAN :
         Call(Entry(pc, "katello-service stop", sat_host, <<>>),
              "su_mongod_1", TRUE, ok)
    /\ UNCHANGED <<product, sat_image, cap_image, environ, env, version,
                   sat_host, cap_host, satRepos, capRepos>>

\* line 86
StopServices ==
    /\ pc = "su_stop_1"
    /\ \E ok \in BOOLEAN :
         Call(Entry(pc, "katello-service stop", sat_host, <<>>),
              "su_mongod_1", FALSE, ok)
    /\ UNCHANGED <<product, sat_image, cap_image, environ, env, version,
                   sat_host, cap_host, satRepos, capRepos>>

\* lines 87-88
WaitMongod ==
    /\ pc = "su_mongod_1"
    /\ IF environ["TO_VERSION"] = "6.1"
         THEN \E ok \in BOOLEAN :
                Call(Entry(pc, "service-wait mongod start", sat_host, <<>>),
                     "su_yum_clean", FALSE, ok)
         ELSE Goto("su_yum_clean")
    /\ UNCHANGED <<product, sat_image, cap_image, environ, env, version,
                   sat_host, cap_host, satRepos, capRepos>>

\* line 89
YumCleanAll ==
    /\ pc = "su_yum_clean"
    /\ \E ok \in BOOLEAN :
         Call(Entry(pc, "yum clean all", sat_host, <<>>),
              "su_update_verbose", TRUE, ok)
    /\ UNCHANGED <<product, sat_image, cap_image, environ, env, version,
                   sat_host, cap_host, satRepos, capRepos>>

\* line 93
UpdatePackagesVerbose ==
    /\ pc = "su_update_verbose"
    /\ \E ok \in BOOLEAN :
         Call(Entry(pc, "update_packages", sat_host, <<"quiet=False">>),
              "su_reboot_2", FALSE, ok)
    /\ UNCHANGED <<product, sat_image, cap_image, environ, env, version,
                   sat_host, cap_host, satRepos, capRepos>>

\* lines 96-97
RebootAfterUpdate ==
    /\ pc = "su_reboot_2"
    /\ IF Truthy(environ["RHEV_SATELLITE"])
         THEN \E ok \in BOOLEAN : reboot(pc, sat_host, "su_stop_2", ok)
         ELSE Goto("su_stop_2")
    /\ UNCHANGED <<product, sat_image, cap_image, environ, env, version,
                   sat_host, cap_host, satRepos, capRepos>>

\* line 99
StopServicesAgain ==
    /\ pc = "su_stop_2"
    /\ \E ok \in BOOLEAN :
         Call(Entry(pc, "katello-service stop", sat_host, <<>>),
              "su_mongod_2", FALSE, ok)
    /\ UNCHANGED <<product, sat_image, cap_image, environ, env, version,
                   sat_host, cap_host, satRepos, capRepos>>

\* WaitMongodAgain, without the test of line 100.
WaitMongodAgainAlways ==
    /\ pc = "su_mongod_2"
    /\ \E ok \in BOOLEAN :
         Call(Entry(pc, "service-wait mongod start", sat_host, <<>>),
              "su_installer", FALSE, ok)
    /\ UNCHANGED <<product, sat_image, cap_image, environ, env, version,
                   sat_host, cap_host, satRepos, capRepos>>

\* lines 100-101
WaitMongodAgain ==
    /\ pc = "su_mongod_2"
    /\ IF environ["TO_VERSION"] = "6.1"
         THEN \E ok \in BOOLEAN :
                Call(Entry(pc, "service-wait mongod start", sat_host, <<>>),
                     "su_installer", FALSE, ok)
         ELSE Goto("su_installer")
    /\ UNCHANGED <<product, sat_image, cap_image, environ, env, version,
                   sat_host, cap_host, satRepos, capRepos>>

\* RunInstaller, had the branches of lines 104-107 been exchanged.
RunInstallerSwapped ==
    /\ pc = "su_installer"
    /\ \E ok \in BOOLEAN :
         IF environ["TO_VERSION"] # "6.1"
           THEN Call(Entry(pc, "katello-installer --upgrade", sat_host, <<>>),
                     "su_hammer_ping", FALSE, ok)
           ELSE Call(Entry(pc, "satellite-installer --scenario satellite --upgrade",
                           sat_host, <<>>),
                     "su_hammer_ping", FALSE, ok)
    /\ UNCHANGED <<product, sat_image, cap_image, environ, env, version,
                   sat_host, cap_host, satRepos, capRepos>>

\* RunInstaller, had lines 105 and 107 been issued with warn_only=True.
RunInstallerWarnOnly ==
    /\ pc = "su_installer"
    /\ \E ok \in BOOLEAN :
         IF environ["TO_VERSION"] = "6.1"
           THEN Call(Entry(pc, "katello-installer --upgrade", sat_host, <<>>),
                     "su_hammer_ping", TRUE, ok)
           ELSE Call(Entry(pc, "satellite-installer --scenario satellite --upgrade",
                           sat_host, <<>>),
                     "su_hammer_ping", TRUE, ok)
    /\ UNCHANGED <<product, sat_image, cap_image, environ, env, version,
                   sat_host, cap_host, satRepos, capRepos>>

\* lines 104-107
RunInstaller ==
    /\ pc = "su_installer"
    /\ \E ok \in BOOLEAN :
         IF environ["TO_VERSION"] = "6.1"
           THEN Call(Entry(pc, "katello-installer --upgrade", sat_host, <<>>),
                     "su_hammer_ping", FALSE, ok)
           ELSE Call(Entry(pc, "satellite-installer --scenario satellite --upgrade",
                           sat_host, <<>>),
                     "su_hammer_ping", FALSE, ok)
    /\ UNCHANGED <<product, sat_image, cap_image, environ, env, version,
                   sat_host, cap_host, satRepos, capRepos>>

\* line 110
HammerPing ==
    /\ pc = "su_hammer_ping"
    /\ \E ok \in BOOLEAN :
         Call(Entry(pc, "hammer ping", sat_host, <<>>),
              "su_service_status", TRUE, ok)
    /\ UNCHANGED <<product, sat_image, cap_image, environ, env, version,
                   sat_host, cap_host, satRepos, capRepos>>

\* line 112
ServiceStatus ==
    /\ pc = "su_service_status"
    /\ \E ok \in BOOLEAN :
         Call(Entry(pc, "katello-service status", sat_host, <<>>),
              "pu_foreman_debug_sat", TRUE, ok)
    /\ UNCHANGED <<product, sat_image, cap_image, environ, env, version,
                   sat_host, cap_host, satRepos, capRepos>>

\* ForemanDebugSatellite, had line 318 been left out.
ForemanDebugSatelliteSkipped ==
    /\ pc = "pu_foreman_debug_sat"
    /\ IF product = "capsule"
         THEN Goto("cu_start")
         ELSE /\ pc' = "end"
              /\ status' = "done"
              /\ UNCHANGED <<log, lastFail>>
    /\ UNCHANGED <<product, sat_image, cap_image, environ, env, version,
                   sat_host, cap_host, satRepos, capRepos>>

\* lines 318-319
ForemanDebugSatellite ==
    /\ pc = "pu_foreman_debug_sat"
    /\ \E ok \in BOOLEAN :
         Call(Entry(pc, "foreman_debug", sat_host, <<"satellite">>),
              IF product = "capsule" THEN "cu_start" ELSE "end", FALSE, ok)
    /\ UNCHANGED <<product, sat_image, cap_image, environ, env, version,
                   sat_host, cap_host, satRepos, capRepos>>

-----------------------------------------------------------------------------
(* satellite6_capsule_upgrade, executed with host=cap_host (line 322).     *)
(* Its own sat_host and cap_host are env.get('satellite_host') and         *)
(* env.get('capsule_host') (lines 136-137).                                *)

\* CapsuleCheckVersions, had line 139 accepted every known version string.
CapsuleCheckVersionsLoose ==
    /\ pc = "cu_start"
    /\ \E f \in EnvValues("FROM_VERSION"), t \in EnvValues("TO_VERSION") :
         /\ Reads("FROM_VERSION", f)
         /\ Reads("TO_VERSION", t)
         /\ environ' = [environ EXCEPT !["FROM_VERSION"] = f,
                                       !["TO_VERSION"] = t]
         /\ capRepos' = IF f \in VersionStrings THEN {CapsuleRepo(f)} ELSE {}
         /\ IF f \notin {"6.2", "6.1", "6.0"}
              THEN Exit("bad_from_version")
              ELSE IF t \notin {"6.1", "6.2"}
                     THEN Exit("bad_to_version")
                     ELSE Goto("cu_distro_info")
    /\ UNCHANGED <<product, sat_image, cap_image, env, version, sat_host,
                   cap_host, satRepos>>

\* lines 138-146.  FROM_VERSION is "Capsule current version, to disable
\* repos while upgrading" (lines 128-130): the capsule repository enabled
\* on the host before the upgrade is the one of that version.
CapsuleCheckVersions ==
    /\ pc = "cu_start"
    /\ \E f \in EnvValues("FROM_VERSION"), t \in EnvValues("TO_VERSION") :
         /\ Reads("FROM_VERSION", f)
         /\ Reads("TO_VERSION", t)
         /\ environ' = [environ EXCEPT !["FROM_VERSION"] = f,
                                       !["TO_VERSION"] = t]
         /\ capRepos' = IF f \in VersionStrings THEN {CapsuleRepo(f)} ELSE {}
         /\ IF f \notin {"6.1", "6.0"}
              THEN Exit("bad_from_version")
              ELSE IF t \notin {"6.1", "6.2"}
                     THEN Exit("bad_to_version")
                     ELSE Goto("cu_distro_info")
    /\ UNCHANGED <<product, sat_image, cap_image, env, version, sat_host,
                   cap_host, satRepos>>

\* line 150
CapsuleDistroInfo ==
    /\ pc = "cu_distro_info"
    /\ \E ok \in BOOLEAN :
         Call(Entry(pc, "distro_info", cap_host, <<>>),
              "cu_enable_repo", FALSE, ok)
    /\ UNCHANGED <<product, sat_image, cap_image, environ, env, version,
                   sat_host, cap_host, satRepos, capRepos>>

\* lines 151-153
CapsuleEnableRepo ==
    /\ pc = "cu_enable_repo"
    /\ \E u \in EnvValues("CAPSULE_URL") :
         /\ Reads("CAPSULE_URL", u)
         /\ environ' = [environ EXCEPT !["CAPSULE_URL"] = u]
         /\ IF u = None
              THEN \E ok \in BOOLEAN :
                     /\ Call(Entry(pc, "enable_repos", cap_host,
                                   CapsuleRepo(environ["TO_VERSION"])),
                             "cu_disable_repo", FALSE, ok)
                     /\ capRepos' = IF ok
                          THEN capRepos \cup {CapsuleRepo(environ["TO_VERSION"])}
                          ELSE capRepos
              ELSE /\ Goto("cu_disable_repo")
                   /\ capRepos' = capRepos
    /\ UNCHANGED <<product, sat_image, cap_image, env, version, sat_host,
                   cap_host, satRepos>>

\* lines 154-155
CapsuleDisableRepo ==
    /\ pc = "cu_disable_repo"
    /\ \E ok \in BOOLEAN :
         /\ Call(Entry(pc, "disable_repos", cap_host,
                       CapsuleRepo(environ["FROM_VERSION"])),
                 "cu_stop_1", FALSE, ok)
         /\ capRepos' = IF ok
              THEN capRepos \ {CapsuleRepo(environ["FROM_VERSION"])}
              ELSE capRepos
    /\ UNCHANGED <<product, sat_image, cap_image, environ, env, version,
                   sat_host, cap_host, satRepos>>

\* lines 157-158
CapsuleStopServices ==
    /\ pc = "cu_stop_1"
    /\ \E ok \in BOOLEAN :
         Call(Entry(pc, "for i in qpidd pulp_workers pulp_celerybeat pulp_resource_manager httpd; do service $i stop; done", cap_host, <<>>),
              "cu_yum_clean", FALSE, ok)
    /\ UNCHANGED <<product, sat_image, cap_image, environ, env, version,
                   sat_host, cap_host, satRepos, capRepos>>

\* line 159
CapsuleYumCleanAll ==
    /\ pc = "cu_yum_clean"
    /\ \E ok \in BOOLEAN :
         Call(Entry(pc, "yum clean all", cap_host, <<>>),
              "cu_update", TRUE, ok)
    /\ UNCHANGED <<product, sat_image, cap_image, environ, env, version,
                   sat_host, cap_host, satRepos, capRepos>>

\* line 162
CapsuleUpdatePackages ==
    /\ pc = "cu_update"
    /\ \E ok \in BOOLEAN :
         Call(Entry(pc, "update_packages", cap_host, <<"quiet=False">>),
              "cu_install_installer", FALSE, ok)
    /\ UNCHANGED <<product, sat_image, cap_image, environ, env, version,
                   sat_host, cap_host, satRepos, capRepos>>

\* CapsuleInstallInstaller, had line 164 tested '6.1'.
CapsuleInstallInstallerWrongVersion ==
    /\ pc = "cu_install_installer"
    /\ IF environ["FROM_VERSION"] = "6.1"
         THEN \E ok \in BOOLEAN :
                Call(Entry(pc, "yum install -y capsule-installer", cap_host, <<>>),
                     "cu_copy_answers", TRUE, ok)
         ELSE Goto("cu_generate_certs")
    /\ UNCHANGED <<product, sat_image, cap_image, environ, env, version,
                   sat_host, cap_host, satRepos, capRepos>>

\* lines 164-165
CapsuleInstallInstaller ==
    /\ pc = "cu_install_installer"
    /\ IF environ["FROM_VERSION"] = "6.0"
         THEN \E ok \in BOOLEAN :
                Call(Entry(pc, "yum install -y capsule-installer", cap_host, <<>>),
                     "cu_copy_answers", TRUE, ok)
         ELSE Goto("cu_generate_certs")
    /\ UNCHANGED <<product, sat_image, cap_image, environ, env, version,
                   sat_host, cap_host, satRepos, capRepos>>

\* lines 167-169
CapsuleCopyAnswers ==
    /\ pc = "cu_copy_answers"
    /\ \E ok \in BOOLEAN :
         Call(Entry(pc, "cp /etc/katello-installer/answers.capsule-installer.yaml.rpmsave /etc/capsule-installer/answers.capsule-installer.yaml", cap_host, <<>>),
              "cu_generate_certs", TRUE, ok)
    /\ UNCHANGED <<product, sat_image, cap_image, environ, env, version,
                   sat_host, cap_host, satRepos, capRepos>>

\* lines 171-176
GenerateCapsuleCerts ==
    /\ pc = "cu_generate_certs"
    /\ \E ok \in BOOLEAN :
         Call(Entry(pc, "generate_capsule_certs", env.satellite_host,
                    <<env.capsule_host, "True">>),
              "cu_scp_certs", FALSE, ok)
    /\ UNCHANGED <<product, sat_image, cap_image, environ, env, version,
                   sat_host, cap_host, satRepos, capRepos>>

\* CopyCapsuleCerts, had line 178 been issued with warn_only=True.
CopyCapsuleCertsWarnOnly ==
    /\ pc = "cu_scp_certs"
    /\ \E ok \in BOOLEAN :
         Call(Entry(pc, "scp -o 'StrictHostKeyChecking no' {0}-certs.tar root@{0}:/home/",
                    env.satellite_host, <<env.capsule_host>>),
              "cu_reboot", TRUE, ok)
    /\ UNCHANGED <<product, sat_image, cap_image, environ, env, version,
                   sat_host, cap_host, satRepos, capRepos>>

\* lines 178-179
CopyCapsuleCerts ==
    /\ pc = "cu_scp_certs"
    /\ \E ok \in BOOLEAN :
         Call(Entry(pc, "scp -o 'StrictHostKeyChecking no' {0}-certs.tar root@{0}:/home/",
                    env.satellite_host, <<env.capsule_host>>),
              "cu_reboot", FALSE, ok)
    /\ UNCHANGED <<product, sat_image, cap_image, environ, env, version,
                   sat_host, cap_host, satRepos, capRepos>>

\* CapsuleReboot, had line 181 consulted RHEV_SATELLITE.
CapsuleRebootOtherRole ==
    /\ pc = "cu_reboot"
    /\ \E r \in EnvValues("RHEV_CAPSULE") :
         /\ Reads("RHEV_CAPSULE", r)
         /\ environ' = [environ EXCEPT !["RHEV_CAPSULE"] = r]
         /\ IF Truthy(environ["RHEV_SATELLITE"])
              THEN \E ok \in BOOLEAN : reboot(pc, cap_host, "cu_stop_2", ok)
              ELSE Goto("cu_stop_2")
    /\ UNCHANGED <<product, sat_image, cap_image, env, version, sat_host,
                   cap_host, satRepos, capRepos>>

\* lines 181-182
CapsuleReboot ==
    /\ pc = "cu_reboot"
    /\ \E r \in EnvValues("RHEV_CAPSULE") :
         /\ Reads("RHEV_CAPSULE", r)
         /\ environ' = [environ EXCEPT !["RHEV_CAPSULE"] = r]
         /\ IF Truthy(r)
              THEN \E ok \in BOOLEAN : reboot(pc, cap_host, "cu_stop_2", ok)
              ELSE Goto("cu_stop_2")
    /\ UNCHANGED <<product, sat_image, cap_image, env, version, sat_host,
                   cap_host, satRepos, capRepos>>

\* lines 184-185
CapsuleStopServicesAgain ==
    /\ pc = "cu_stop_2"
    /\ \E ok \in BOOLEAN :
         Call(Entry(pc, "for i in qpidd pulp_workers pulp_celerybeat pulp_resource_manager httpd; do service $i stop; done", cap_host, <<>>),
              "cu_installer", FALSE, ok)
    /\ UNCHANGED <<product, sat_image, cap_image, environ, env, version,
                   sat_host, cap_host, satRepos, capRepos>>

\* lines 188-193
CapsuleRunInstaller ==
    /\ pc = "cu_installer"
    /\ \E ok \in BOOLEAN :
         IF environ["TO_VERSION"] = "6.1"
           THEN Call(Entry(pc, "capsule-installer --upgrade --certs-tar /home/{0}-certs.tar",
                           cap_host, <<env.capsule_host>>),
                     "cu_service_status", FALSE, ok)
           ELSE Call(Entry(pc, "satellite-installer --scenario capsule --upgrade --certs-tar /home/{0}-certs.tar",
                           cap_host, <<env.capsule_host>>),
                     "cu_service_status", FALSE, ok)
    /\ UNCHANGED <<product, sat_image, cap_image, environ, env, version,
                   sat_host, cap_host, satRepos, capRepos>>

\* line 196
CapsuleServiceStatus ==
    /\ pc = "cu_service_status"
    /\ \E ok \in BOOLEAN :
         Call(Entry(pc, "katello-service status", cap_host, <<>>),
              "pu_foreman_debug_cap", TRUE, ok)
    /\ UNCHANGED <<product, sat_image, cap_image, environ, env, version,
                   sat_host, cap_host, satRepos, capRepos>>

\* ForemanDebugCapsule, had line 324 been given host=sat_host.
ForemanDebugCapsuleOnHub ==
    /\ pc = "pu_foreman_debug_cap"
    /\ \E ok \in BOOLEAN :
         Call(Entry(pc, "foreman_debug", sat_host, <<"capsule">>),
              "end", FALSE, ok)
    /\ UNCHANGED <<product, sat_image, cap_image, environ, env, version,
                   sat_host, cap_host, satRepos, capRepos>>

\* line 324
ForemanDebugCapsule ==
    /\ pc = "pu_foreman_debug_cap"
    /\ \E ok \in BOOLEAN :
         Call(Entry(pc, "foreman_debug", cap_host, <<"capsule">>),
              "end", FALSE, ok)
    /\ UNCHANGED <<product, sat_image, cap_image, environ, env, version,
                   sat_host, cap_host, satRepos, capRepos>>

-----------------------------------------------------------------------------

Init ==
    /\ product \in Products
    /\ sat_image \in {None, "sat-template"}
    /\ cap_image \in {None, "cap-template"}
    /\ environ = [k \in EnvKeys |-> Unread]
    /\ env = [satellite_host |-> None, capsule_host |-> None]
    /\ version = Unbound
    /\ sat_host = Unbound
    /\ cap_host = Unbound
    /\ pc = "pu_start"
    /\ status = "running"
    /\ log = <<>>
    /\ lastFail = None
    /\ satRepos = OldSatRepos
    /\ capRepos = {}

Next ==
    \/ CheckProduct
    \/ ResolveSatellite
    \/ DeleteSatInstance
    \/ CreateSatInstance
    \/ HostPings
    \/ Subscribe
    \/ RestartServices
    \/ ResolveCapsule
    \/ DeleteCapInstance
    \/ CreateCapInstance
    \/ CopySshKey
    \/ SyncCapsuleRepos
    \/ CheckToVersion
    \/ SetYumDebugLevel
    \/ RemoveRhelRepoFiles
    \/ UpdatePackagesQuiet
    \/ RebootBeforeRepos
    \/ DistroInfo
    \/ DisableAllRepos
    \/ EnableRhelRepo
    \/ EnableRhsclRepo
    \/ SetSatelliteRepo
    \/ StopServices
    \/ WaitMongod
    \/ YumCleanAll
    \/ UpdatePackagesVerbose
    \/ RebootAfterUpdate
    \/ StopServicesAgain
    \/ WaitMongodAgain
    \/ RunInstaller
    \/ HammerPing
    \/ ServiceStatus
    \/ ForemanDebugSatellite
    \/ CapsuleCheckVersions
    \/ CapsuleDistroInfo
    \/ CapsuleEnableRepo
    \/ CapsuleDisableRepo
    \/ CapsuleStopServices
    \/ CapsuleYumCleanAll
    \/ CapsuleUpdatePackages
    \/ CapsuleInstallInstaller
    \/ CapsuleCopyAnswers
    \/ GenerateCapsuleCerts
    \/ CopyCapsuleCerts
    \/ CapsuleReboot
    \/ CapsuleStopServicesAgain
    \/ CapsuleRunInstaller
    \/ CapsuleServiceStatus
    \/ ForemanDebugCapsule

Spec == Init /\ [][Next]_vars

-----------------------------------------------------------------------------
(* Vocabulary of the properties *)

Range(seq) == {seq[i] : i \in 1..Len(seq)}
Idx == 1..Len(log)
Issued(label) == \E i \in Idx : log[i].at = label

\* The calls of satellite6_upgrade and of satellite6_capsule_upgrade, in
\* the order of the source.
HubWorkflow ==
    <<"su_yum_debug_level", "su_rm_repo_files", "su_update_quiet",
      "su_reboot_1", "su_distro_info", "su_disable_repos", "su_enable_rhel",
      "su_enable_rhscl", "su_satellite_repo", "su_stop_1", "su_mongod_1",
      "su_yum_clean", "su_update_verbose", "su_reboot_2", "su_stop_2",
      "su_mongod_2", "su_installer", "su_hammer_ping", "su_service_status">>

CapsuleWorkflow ==
    <<"cu_distro_info", "cu_enable_repo", "cu_disable_repo", "cu_stop_1",
      "cu_yum_clean", "cu_update", "cu_install_installer", "cu_copy_answers",
      "cu_generate_certs", "cu_scp_certs", "cu_reboot", "cu_stop_2",
      "cu_installer", "cu_service_status">>

\* yum clean all, hammer ping, katello-service status, and the two
\* capsule-installer migration commands.
TolerantPhases ==
    {"su_yum_clean", "su_hammer_ping", "su_service_status", "cu_yum_clean",
     "cu_install_installer", "cu_copy_answers", "cu_service_status"}

MandatoryPhases ==
    (Range(HubWorkflow) \cup Range(CapsuleWorkflow)) \ TolerantPhases

\* The statement that follows a phase: the next phase of its workflow, or
\* the diagnostics call that follows the workflow in product_upgrade.
Following(wf, after, label) ==
    LET k == CHOOSE i \in 1..Len(wf) : wf[i] = label
    IN  IF k = Len(wf) THEN after ELSE wf[k + 1]

PhaseAfter(label) ==
    IF label \in Range(HubWorkflow)
      THEN Following(HubWorkflow, "pu_foreman_debug_sat", label)
      ELSE Following(CapsuleWorkflow, "pu_foreman_debug_cap", label)

\* Everything satellite6_capsule_upgrade issues, and the subordinate
\* diagnostics.
SubordinateRun == Range(CapsuleWorkflow) \cup {"pu_foreman_debug_cap"}

\* The subordinate-side preparation of product_upgrade.
SubordinatePreparation ==
    {"pu_delete_cap", "pu_create_cap", "pu_copy_ssh_key",
     "pu_sync_capsule_repos"}

ProvisioningOps == {"delete_rhevm_instance", "create_rhevm_instance"}
RepoOps == {"enable_repos", "disable_repos"}
StopOps ==
    {"katello-service stop",
     "for i in qpidd pulp_workers pulp_celerybeat pulp_resource_manager httpd; do service $i stop; done"}

ValidTo == {"6.1", "6.2"}
ValidFrom == {"6.0", "6.1"}

\* The value of an os.environ key is known to the run and lies outside S.
ReadOutside(k, S) == environ[k] # Unread /\ environ[k] \notin S

-----------------------------------------------------------------------------
(* C1 *)

C1_MandatoryStops ==
    lastFail \in MandatoryPhases =>
        /\ status = "remote_error"
        /\ pc = "exit"
        /\ \A i \in Idx : log[i].at = lastFail => i = Len(log)

C1_TolerantContinues ==
    (lastFail' # lastFail /\ lastFail' \in TolerantPhases) =>
        /\ status' = "running"
        /\ pc' = PhaseAfter(lastFail')

\* C1: in both workflows a failed call that was issued without warn_only
\* ends the run with that call as the last one issued, so that no later
\* phase executes; a failed call that was issued with warn_only (yum clean
\* all, hammer ping, katello-service status, the capsule-installer
\* migration commands) leaves the run running and positioned at the phase
\* that follows it.
C1_FailurePolicy == [](C1_MandatoryStops) /\ [][C1_TolerantContinues]_vars

\* A run that completed although the second migration command failed.
C1_Witness == status = "done" /\ lastFail = "cu_copy_answers"

-----------------------------------------------------------------------------
(* C2 *)

\* C2 as stated: with TO_VERSION outside {6.1, 6.2} the run fails and has
\* issued no instance delete/create, no service restart/stop and no
\* repository enable/disable.
C2_Original ==
    ReadOutside("TO_VERSION", ValidTo) =>
        /\ status = "bad_to_version"
        /\ \A i \in Idx :
             log[i].op \notin ProvisioningOps \cup {"katello-service restart"}
                              \cup StopOps \cup RepoOps

\* C2, amended: with TO_VERSION outside {6.1, 6.2} the run ends with the
\* wrong-version failure as soon as the hub workflow starts; a run only
\* completes, and a service stop or a repository enable/disable is only
\* ever issued, when TO_VERSION is 6.1 or 6.2.  (Instance delete/create
\* and the hub service restart precede the check.)
C2_Amended ==
    /\ ReadOutside("TO_VERSION", ValidTo) =>
         status = "bad_to_version" /\ pc = "exit"
    /\ (status = "done" \/ \E i \in Idx : log[i].op \in StopOps \cup RepoOps)
         => environ["TO_VERSION"] \in ValidTo

\* The version check failed after an instance had been created.
C2_Witness ==
    /\ status = "bad_to_version"
    /\ \E i \in Idx : log[i].op = "create_rhevm_instance"

-----------------------------------------------------------------------------
(* C3 *)

\* C3 as stated: with product=capsule and FROM_VERSION outside {6.0, 6.1}
\* the run ends with the wrong-version failure and no call has been issued
\* on any host.
C3_Original ==
    (product = "capsule" /\ ReadOutside("FROM_VERSION", ValidFrom)) =>
        /\ status = "bad_from_version"
        /\ \A i \in Idx : log[i].host = Local

\* C3, amended: with product=capsule and FROM_VERSION outside {6.0, 6.1}
\* the wrong-version failure is raised when the subordinate workflow
\* starts, after the hub workflow and the hub diagnostics have run and
\* before any call of the subordinate workflow; a call of the subordinate
\* workflow or the subordinate diagnostics is only ever issued when
\* FROM_VERSION is 6.0 or 6.1.
C3_Amended ==
    /\ (product = "capsule" /\ ReadOutside("FROM_VERSION", ValidFrom)) =>
         /\ status = "bad_from_version" /\ pc = "exit"
         /\ Issued("su_service_status") /\ Issued("pu_foreman_debug_sat")
    /\ (\E i \in Idx : log[i].at \in SubordinateRun)
         => environ["FROM_VERSION"] \in ValidFrom

\* The FROM_VERSION check failed in a capsule run.
C3_Witness == product = "capsule" /\ status = "bad_from_version"

-----------------------------------------------------------------------------
(* C4 *)

\* No subordinate host is specified, as far as the run can tell.
NoCapsuleHostSpecified ==
    /\ product = "capsule"
    /\ ~Truthy(cap_image)
    /\ environ["CAPSULE_HOSTNAME"] \in {Unread, None}
    /\ environ["RHEV_CAPSULE"] \in {Unread, None}

\* C4 as stated: without any subordinate host specification the run ends
\* with the missing-host failure, and no provisioning call and no call on
\* a host has been issued.
C4_Original ==
    (/\ product = "capsule"
     /\ ~Truthy(cap_image)
     /\ environ["CAPSULE_HOSTNAME"] = None
     /\ environ["RHEV_CAPSULE"] = None) =>
        /\ status = "missing_capsule_host"
        /\ \A i \in Idx :
             log[i].op \notin ProvisioningOps /\ log[i].host = Local

\* C4, amended: without any subordinate host specification the run never
\* completes and never issues a subordinate provisioning call, a
\* credential copy or a call of either workflow: all it issues is the hub
\* provisioning (delete, create, wait, subscribe), if the hub is
\* provisioned, and the hub service restart; once these have succeeded it
\* ends with the missing-host failure.
C4_Amended ==
    NoCapsuleHostSpecified =>
        /\ \A i \in Idx :
             log[i].at \in {"pu_delete_sat", "pu_create_sat", "pu_host_pings",
                            "pu_subscribe", "pu_restart"}
        /\ status \in {"running", "missing_satellite_host", "missing_os",
                       "remote_error", "missing_capsule_host"}
        /\ (Issued("pu_restart") /\ lastFail = None /\ pc # "pu_resolve_cap")
             => status = "missing_capsule_host"

\* The missing-host failure was raised after the hub had been provisioned.
C4_Witness ==
    /\ status = "missing_capsule_host"
    /\ Issued("pu_create_sat")

-----------------------------------------------------------------------------
(* C5 *)

\* C5 as stated: every call of the subordinate-side preparation is issued
\* after the hub workflow and the hub diagnostics.
C5_Original ==
    \A j \in Idx :
        log[j].at \in SubordinatePreparation =>
            \E i \in 1..(j - 1) : log[i].at = "pu_foreman_debug_sat"

\* C5, amended: the subordinate-side preparation is issued after the hub
\* service restart and before the first call of the hub workflow; what
\* comes after the hub workflow and the hub diagnostics is the subordinate
\* workflow and the subordinate diagnostics.
C5_Amended ==
    \A j \in Idx :
        /\ log[j].at \in SubordinatePreparation =>
             /\ \E i \in 1..(j - 1) : log[i].at = "pu_restart"
             /\ \A i \in 1..(j - 1) :
                  log[i].at \notin Range(HubWorkflow) \cup {"pu_foreman_debug_sat"}
        /\ log[j].at \in SubordinateRun =>
             /\ \E i \in 1..(j - 1) : log[i].at = "su_service_status"
             /\ \E i \in 1..(j - 1) : log[i].at = "pu_foreman_debug_sat"

\* The subordinate workflow has started in a run that copied the credential.
C5_Witness == Issued("pu_copy_ssh_key") /\ Issued("cu_distro_info")

-----------------------------------------------------------------------------
(* C6 *)

\* A Mandatory phase of the hub workflow failed, or the hub's version
\* check did.
HubFailedFatally ==
    \/ lastFail \in Range(HubWorkflow) \ TolerantPhases
    \/ status = "bad_to_version"

\* C6 as stated: after a fatal hub failure in a capsule run nothing that
\* targets the subordinate host has been issued.
C6_Original ==
    (product = "capsule" /\ HubFailedFatally) =>
        \A i \in Idx :
            log[i].at \notin SubordinateRun
                \cup {"pu_delete_cap", "pu_create_cap", "pu_copy_ssh_key"}

\* C6, amended: after a fatal hub failure in a capsule run the run is
\* over, and no call of the subordinate workflow and no subordinate
\* diagnostics has been issued.  (The credential copy to the subordinate,
\* and the subordinate instance delete/create if it is provisioned, were
\* issued before the hub workflow started.)
C6_Amended ==
    (product = "capsule" /\ HubFailedFatally) =>
        /\ pc = "exit"
        /\ \A i \in Idx : log[i].at \notin SubordinateRun
        /\ Issued("pu_copy_ssh_key")

\* The hub installer failed in a capsule run.
C6_Witness ==
    product = "capsule" /\ status = "remote_error" /\ lastFail = "su_installer"

-----------------------------------------------------------------------------
(* C7 *)

\* C7: certificate generation and the copy of the tarball run on the hub
\* host product_upgrade resolved, and generation, the tarball and the
\* installer's --certs-tar path are named after the subordinate host
\* product_upgrade resolved.
C7_CertificatesForResolvedHosts ==
    \A i \in Idx :
        /\ log[i].at = "cu_generate_certs" =>
             log[i].host = sat_host /\ log[i].args[1] = cap_host
        /\ log[i].at = "cu_scp_certs" =>
             log[i].host = sat_host /\ log[i].args = <<cap_host>>
        /\ log[i].at = "cu_installer" => log[i].args = <<cap_host>>

-----------------------------------------------------------------------------
(* C8 *)

\* The call involves the host of that address.
Involves(e, address) == e.host = address \/ address \in Range(e.args)

\* The address of the instance a create call of product_upgrade makes.
CreatedAddress(e) ==
    IF e.at = "pu_create_sat" THEN environ["RHEV_SATELLITE"]
                              ELSE environ["RHEV_CAPSULE"]

\* C8: between the creation of an instance and the first later call that
\* involves its host, a wait for that host's address has been issued.
C8_WaitAfterCreate ==
    \A i \in Idx :
        (log[i].op = "create_rhevm_instance" /\ Truthy(CreatedAddress(log[i]))) =>
            \A j \in (i + 1)..Len(log) :
                (Involves(log[j], CreatedAddress(log[i])) /\ log[j].op # "host_pings") =>
                    \E k \in (i + 1)..(j - 1) :
                        /\ log[k].op = "host_pings"
                        /\ log[k].args = <<CreatedAddress(log[i])>>

-----------------------------------------------------------------------------
(* C9 *)

\* The reachability waits: after provisioning, and inside each reboot.
ReachabilityWaits == {"pu_host_pings", "su_reboot_1", "su_reboot_2", "cu_reboot"}

-----------------------------------------------------------------------------
(* C10 *)

\* C10: without CAPSULE_URL, from the end of the subordinate's repository
\* configuration to the package update, the capsule repository of
\* TO_VERSION is enabled and no other capsule repository is.
C10_TargetRepoEnabled ==
    (pc \in {"cu_stop_1", "cu_yum_clean", "cu_update"}
        /\ environ["CAPSULE_URL"] = None) =>
        capRepos = {CapsuleRepo(environ["TO_VERSION"])}

-----------------------------------------------------------------------------
(* Further vocabulary *)

\* The run has read the os.environ key and found a non-empty value.
IsSet(k) == environ[k] \notin {Unread, None, ""}

InWorkflow(wf) == {i \in Idx : log[i].at \in Range(wf)}

HubInstallers ==
    {"katello-installer --upgrade",
     "satellite-installer --scenario satellite --upgrade"}
CapsuleInstallers ==
    {"capsule-installer --upgrade --certs-tar /home/{0}-certs.tar",
     "satellite-installer --scenario capsule --upgrade --certs-tar /home/{0}-certs.tar"}

-----------------------------------------------------------------------------
(* C11 *)

\* C11: the repository file is written only by the hub workflow and only
\* when BASE_URL is supplied; the satellite repository of TO_VERSION is
\* enabled only when BASE_URL is not supplied, and the capsule repository
\* of TO_VERSION only when CAPSULE_URL is not supplied.
C11_RepositorySource ==
    \A i \in Idx :
        /\ log[i].op = "put" =>
             /\ log[i].at \in Range(HubWorkflow)
             /\ IsSet("BASE_URL")
        /\ (log[i].op = "enable_repos"
              /\ log[i].args = SatelliteRepo(environ["TO_VERSION"]))
             => environ["BASE_URL"] = None
        /\ (log[i].op = "enable_repos"
              /\ log[i].args = CapsuleRepo(environ["TO_VERSION"]))
             => environ["CAPSULE_URL"] = None

\* The hub wrote the repository file and the subordinate enabled the
\* vendor repository.
C11_Witness ==
    /\ \E i \in Idx : log[i].op = "put"
    /\ Issued("cu_enable_repo")

-----------------------------------------------------------------------------
(* C12 *)

\* C12: a workflow that reached its last call has issued exactly one
\* installer command: for the hub katello-installer when TO_VERSION is 6.1
\* and satellite-installer --scenario satellite otherwise (6.2); for the
\* subordinate capsule-installer when TO_VERSION is 6.1 and
\* satellite-installer --scenario capsule otherwise (6.2).
C12_OneInstallerByToVersion ==
    /\ Issued("su_service_status") =>
         LET S == {i \in InWorkflow(HubWorkflow) :
                     log[i].op \in HubInstallers \cup CapsuleInstallers}
         IN  /\ Cardinality(S) = 1
             /\ environ["TO_VERSION"] \in ValidTo
             /\ \A i \in S :
                  log[i].op = IF environ["TO_VERSION"] = "6.1"
                                THEN "katello-installer --upgrade"
                                ELSE "satellite-installer --scenario satellite --upgrade"
    /\ Issued("cu_service_status") =>
         LET S == {i \in InWorkflow(CapsuleWorkflow) :
                     log[i].op \in HubInstallers \cup CapsuleInstallers}
         IN  /\ Cardinality(S) = 1
             /\ environ["TO_VERSION"] \in ValidTo
             /\ \A i \in S :
                  log[i].op = IF environ["TO_VERSION"] = "6.1"
                                THEN "capsule-installer --upgrade --certs-tar /home/{0}-certs.tar"
                                ELSE "satellite-installer --scenario capsule --upgrade --certs-tar /home/{0}-certs.tar"

\* Both workflows ran to their last call with TO_VERSION 6.2.
C12_Witness == Issued("cu_service_status") /\ environ["TO_VERSION"] = "6.2"

-----------------------------------------------------------------------------
(* C13 *)

\* C13: the two capsule-installer migration commands are issued only when
\* FROM_VERSION is 6.0, the first right after the package update and the
\* second right after the first; certificate generation comes right after
\* them when FROM_VERSION is 6.0 and right after the package update
\* otherwise; a failure of either command does not end the run.
C13_LegacyMigration ==
    /\ \A i \in Idx :
         /\ log[i].at = "cu_install_installer" =>
              /\ environ["FROM_VERSION"] = "6.0"
              /\ log[i - 1].at = "cu_update"
         /\ log[i].at = "cu_copy_answers" =>
              /\ environ["FROM_VERSION"] = "6.0"
              /\ log[i - 1].at = "cu_install_installer"
         /\ log[i].at = "cu_generate_certs" =>
              log[i - 1].at = IF environ["FROM_VERSION"] = "6.0"
                                THEN "cu_copy_answers" ELSE "cu_update"
    /\ lastFail \in {"cu_install_installer", "cu_copy_answers"} =>
         status \in {"running", "done"} /\ pc # "exit"

\* A run that completed although yum install capsule-installer failed.
C13_Witness == status = "done" /\ lastFail = "cu_install_installer"

-----------------------------------------------------------------------------
(* C14 *)

\* C14: a reboot in the hub workflow is issued on the hub host and only
\* with RHEV_SATELLITE set, one in the subordinate workflow on the
\* subordinate host and only with RHEV_CAPSULE set; a hub workflow that
\* reached its last call has rebooted twice with RHEV_SATELLITE set and
\* not at all otherwise, a subordinate workflow that reached its last call
\* once with RHEV_CAPSULE set and not at all otherwise.
C14_RebootByRoleFlag ==
    /\ \A i \in Idx :
         log[i].op = "reboot" =>
             IF log[i].at \in Range(HubWorkflow)
               THEN IsSet("RHEV_SATELLITE") /\ log[i].host = sat_host
               ELSE /\ log[i].at = "cu_reboot"
                    /\ IsSet("RHEV_CAPSULE")
                    /\ log[i].host = cap_host
    /\ Issued("su_service_status") =>
         Cardinality({i \in InWorkflow(HubWorkflow) : log[i].op = "reboot"})
           = IF IsSet("RHEV_SATELLITE") THEN 2 ELSE 0
    /\ Issued("cu_service_status") =>
         Cardinality({i \in InWorkflow(CapsuleWorkflow) : log[i].op = "reboot"})
           = IF IsSet("RHEV_CAPSULE") THEN 1 ELSE 0

\* Both workflows ran to their last call with only RHEV_CAPSULE set.
C14_Witness ==
    /\ Issued("cu_service_status")
    /\ IsSet("RHEV_CAPSULE")
    /\ environ["RHEV_SATELLITE"] = None

-----------------------------------------------------------------------------
(* C15 *)

\* C15: with SATELLITE_HOSTNAME set no hub instance is deleted or created
\* and every call of the hub workflow and the hub diagnostics runs on that
\* hostname; with CAPSULE_HOSTNAME set no subordinate instance is deleted
\* or created and every call of the subordinate workflow and the
\* subordinate diagnostics runs on that hostname, except certificate
\* generation and the copy of the tarball, which run on the hub and name
\* that hostname.
C15_ExplicitHostname ==
    /\ IsSet("SATELLITE_HOSTNAME") =>
         /\ ~Issued("pu_delete_sat") /\ ~Issued("pu_create_sat")
         /\ \A i \in Idx :
              log[i].at \in Range(HubWorkflow) \cup {"pu_foreman_debug_sat"}
                => log[i].host = environ["SATELLITE_HOSTNAME"]
    /\ IsSet("CAPSULE_HOSTNAME") =>
         /\ ~Issued("pu_delete_cap") /\ ~Issued("pu_create_cap")
         /\ \A i \in Idx :
              log[i].at \in SubordinateRun =>
                IF log[i].at \in {"cu_generate_certs", "cu_scp_certs"}
                  THEN environ["CAPSULE_HOSTNAME"] \in Range(log[i].args)
                  ELSE log[i].host = environ["CAPSULE_HOSTNAME"]

\* A completed capsule run with both hostnames explicit although images
\* and external-provisioner hostnames were supplied too.
C15_Witness ==
    /\ status = "done"
    /\ IsSet("SATELLITE_HOSTNAME") /\ IsSet("CAPSULE_HOSTNAME")
    /\ Truthy(sat_image) /\ Truthy(cap_image)
    /\ IsSet("RHEV_SATELLITE") /\ IsSet("RHEV_CAPSULE")

-----------------------------------------------------------------------------
(* C16 *)

\* C16: with a product other than satellite and capsule the run issues no
\* call at all and its first step ends it with the wrong-product failure.
C16_BadProduct ==
    product \notin {"satellite", "capsule"} =>
        /\ log = <<>>
        /\ \/ pc = "pu_start" /\ status = "running"
           \/ pc = "exit" /\ status = "bad_product"

\* The product check ended the run.
C16_Witness == status = "bad_product"

-----------------------------------------------------------------------------
(* C17 *)

\* C17: the reboot, the second service stop and the installer of the
\* subordinate workflow are issued only after certificate generation and,
\* after it, the copy of the tarball; a failure of either of the two is the
\* last call of the run.
C17_CertificatesBeforeInstaller ==
    /\ \A i \in Idx :
         log[i].at \in {"cu_reboot", "cu_stop_2", "cu_installer"} =>
             \E j \in 1..(i - 1), k \in 1..(i - 1) :
                 /\ j < k
                 /\ log[j].at = "cu_generate_certs"
                 /\ log[k].at = "cu_scp_certs"
    /\ lastFail \in {"cu_generate_certs", "cu_scp_certs"} =>
         /\ pc = "exit" /\ status = "remote_error"
         /\ log[Len(log)].at = lastFail

\* The subordinate installer has been invoked.
C17_Witness == Issued("cu_installer") /\ lastFail = None

-----------------------------------------------------------------------------
(* C18 *)

\* C18 as stated: in each workflow every enable_repos follows a
\* disable_repos('*') of the same workflow, and once repository
\* configuration is over the workflow has enabled the base OS and the
\* software-collections repositories.
C18_Original ==
    /\ \A i \in Idx :
         log[i].op = "enable_repos" =>
             \E j \in 1..(i - 1) :
                 /\ log[j].op = "disable_repos"
                 /\ log[j].args = <<"*">>
                 /\ (log[j].at \in Range(HubWorkflow))
                      = (log[i].at \in Range(HubWorkflow))
    /\ Issued("su_stop_1") =>
         \E i \in InWorkflow(HubWorkflow) :
             log[i].op = "enable_repos" /\ log[i].args = RhelRepo
    /\ Issued("cu_stop_1") =>
         \E i \in InWorkflow(CapsuleWorkflow) :
             log[i].op = "enable_repos" /\ log[i].args = RhelRepo

\* C18, amended: in the hub workflow every enable_repos follows the
\* disable_repos('*') of line 68, and once its repository configuration is
\* over the base OS and the software-collections repositories are enabled
\* and none of the repositories enabled before is, whatever TO_VERSION and
\* BASE_URL.  The subordinate workflow disables no other repository than
\* the capsule repository of FROM_VERSION and enables no other than the
\* capsule repository of TO_VERSION, the enable (if any) right before the
\* disable.
C18_Amended ==
    /\ \A i \in InWorkflow(HubWorkflow) :
         /\ log[i].op = "enable_repos" =>
              \E j \in 1..(i - 1) :
                  /\ log[j].at = "su_disable_repos"
                  /\ log[j].op = "disable_repos"
                  /\ log[j].args = <<"*">>
         /\ log[i].op = "disable_repos" => log[i].at = "su_disable_repos"
    /\ Issued("su_stop_1") =>
         /\ RhelRepo \in satRepos /\ RhsclRepo \in satRepos
         /\ satRepos \cap OldSatRepos = {}
    /\ \A i \in InWorkflow(CapsuleWorkflow) :
         /\ log[i].op = "enable_repos" =>
              /\ log[i].args = CapsuleRepo(environ["TO_VERSION"])
              /\ log[i].at = "cu_enable_repo"
         /\ log[i].op = "disable_repos" =>
              /\ log[i].args = CapsuleRepo(environ["FROM_VERSION"])
              /\ environ["CAPSULE_URL"] = None => log[i - 1].at = "cu_enable_repo"

\* Both repository configurations are over, the hub's with BASE_URL.
C18_Witness ==
    Issued("su_stop_1") /\ Issued("cu_stop_1") /\ IsSet("BASE_URL")

-----------------------------------------------------------------------------
(* C19 *)

\* C19: in the hub workflow service-wait mongod start is issued only with
\* TO_VERSION 6.1 and only right after a katello-service stop; with
\* TO_VERSION 6.1 whatever follows a katello-service stop is that wait, so
\* that the first wait precedes the verbose package update and the second
\* directly precedes the installer.
C19_DataStoreWait ==
    \A i \in InWorkflow(HubWorkflow) :
        /\ log[i].op = "service-wait mongod start" =>
             /\ environ["TO_VERSION"] = "6.1"
             /\ log[i - 1].op = "katello-service stop"
        /\ (log[i].op = "katello-service stop"
              /\ environ["TO_VERSION"] = "6.1" /\ i < Len(log))
             => log[i + 1].op = "service-wait mongod start"
        /\ (log[i].at = "su_update_verbose" /\ environ["TO_VERSION"] = "6.1")
             => \E j \in 1..(i - 1) : log[j].at = "su_mongod_1"
        /\ (log[i].at = "su_installer" /\ environ["TO_VERSION"] = "6.1")
             => log[i - 1].at = "su_mongod_2"

\* The hub installer has been invoked with TO_VERSION 6.1.
C19_Witness == Issued("su_installer") /\ environ["TO_VERSION"] = "6.1"

-----------------------------------------------------------------------------
(* C20 *)

\* C20: a role without explicit hostname but with an image or an
\* external-provisioner hostname has had OS checked: without OS the run
\* ended with the missing-OS failure, with OS every instance delete/create
\* of the role carries the role's instance name for that OS, the delete
\* before the create, and the run did not end for any other reason of
\* host resolution.
C20_ProvisioningChecksOs ==
    /\ (/\ environ["SATELLITE_HOSTNAME"] = None
        /\ environ["RHEV_SATELLITE"] # Unread
        /\ (Truthy(sat_image) \/ IsSet("RHEV_SATELLITE"))) =>
         /\ environ["OS"] # Unread
         /\ IF ~IsSet("OS")
              THEN status = "missing_os"
              ELSE /\ \A i \in Idx :
                        /\ log[i].at = "pu_delete_sat" =>
                             log[i].args = SatInstance(environ["OS"])
                        /\ log[i].at = "pu_create_sat" =>
                             /\ log[i].args = SatInstance(environ["OS"]) \o <<sat_image>>
                             /\ log[i - 1].at = "pu_delete_sat"
                   /\ pc # "exit" \/ Issued("pu_delete_sat")
    /\ (/\ product = "capsule"
        /\ environ["CAPSULE_HOSTNAME"] = None
        /\ environ["RHEV_CAPSULE"] # Unread
        /\ (Truthy(cap_image) \/ IsSet("RHEV_CAPSULE"))) =>
         /\ environ["OS"] # Unread
         /\ IF ~IsSet("OS")
              THEN status = "missing_os"
              ELSE /\ \A i \in Idx :
                        /\ log[i].at = "pu_delete_cap" =>
                             log[i].args = CapInstance(environ["OS"])
                        /\ log[i].at = "pu_create_cap" =>
                             /\ log[i].args = CapInstance(environ["OS"]) \o <<cap_image>>
                             /\ log[i - 1].at = "pu_delete_cap"
                   /\ pc # "exit" \/ Issued("pu_delete_cap")

====
